---- MODULE Spec2Model ----
(***************************************************************************)
(* The minefield engine of src/src/minefield.rs as a state machine.        *)
(*                                                                         *)
(* The state is one MineField (width, height, mines, flags, tiles) plus    *)
(* three bookkeeping variables: `status` (is the process still running, or *)
(* did the last call panic / overflow the stack), `op` (the name of the    *)
(* last operation) and `ret` (what it returned).  Every public mutating    *)
(* method and get_state are actions; the other read-only methods are       *)
(* operators on the tiles.                                                 *)
(***************************************************************************)
EXTENDS Integers, Sequences, FiniteSets, TLC

\* ------------------------------------------------------------------ bounds
MaxWidth == 3      \* widest field explored
MaxHeight == 2     \* tallest field explored
MaxTiles == 4      \* largest width * height explored
MaxMines == 2      \* cap on the `mines` counter (populate's guard)

VARIABLES width, height, mines, flags, tiles, status, op, ret

\* Minesweeper::play (src/src/game.rs): where play is (`pc`: "idle" before it
\* is called, "loop" between two key events, "done" after its last redraw,
\* "aborted" after a panic or a stack overflow), its cursor, its
\* check_for_mine flag and the number of game_over() calls it has made.
VARIABLES pc, tile_row, tile_column, check_for_mine, game_overs

field == <<width, height, mines, flags, tiles>>
playvars == <<pc, tile_row, tile_column, check_for_mine, game_overs>>
vars == <<width, height, mines, flags, tiles, status, op, ret,
          pc, tile_row, tile_column, check_for_mine, game_overs>>

\* ------------------------------------------------------------- tile.rs
TileState == {"Hidden", "Visible", "Flagged"}

Tile == [state : TileState, has_mine : BOOLEAN]

\* ----------------------------------------------------- Result<T, &str>
OutOfRange == "Tile not in range"
NoSpace == "Not enough space for those mines."

Ok(v) == [ok |-> TRUE, val |-> v, err |-> ""]
Err(e) == [ok |-> FALSE, val |-> <<>>, err |-> e]

\* What `ret` records of the last call: how it ended and the value that goes
\* with it (the coordinate of clear_first_opening's Some((row, column)), the
\* amount populate and new were asked for).
Ret(tag) == [res |-> tag, val |-> <<>>]
RetWith(tag, v) == [res |-> tag, val |-> v]

\* --------------------------------------------------------- MineField
\* MineField::empty: width * height Hidden, mine-free tiles (index 0 ..).
empty(w, h) ==
    [i \in 0..(w * h - 1) |-> [state |-> "Hidden", has_mine |-> FALSE]]

\* position_is_valid testing the index into `tiles` instead of the row and
\* the column.
position_is_valid_by_index(row, column) == row * width + column < width * height

position_is_valid(row, column) == row < height /\ column < width

\* iter_positions: index -> (index / width, index % width).
iter_positions ==
    [k \in 1..(width * height) |-> <<(k - 1) \div width, (k - 1) % width>>]

get_tile(t, row, column) ==
    IF position_is_valid(row, column)
    THEN Ok(t[row * width + column])
    ELSE Err(OutOfRange)

\* get_tile_mut: the same test and the same tile as get_tile.
get_tile_mut(t, row, column) ==
    IF position_is_valid(row, column)
    THEN Ok(t[row * width + column])
    ELSE Err(OutOfRange)

has_mine_at(t, row, column) ==
    LET r == get_tile(t, row, column)
    IN  IF r.ok THEN Ok(r.val.has_mine) ELSE r

get_tile_state(t, row, column) ==
    LET r == get_tile(t, row, column)
    IN  IF r.ok THEN Ok(r.val.state) ELSE r

\* The sequence of positions get_indices_near pushes, in push order.
get_indices_near(row, column) ==
    IF ~position_is_valid(row, column) THEN Err(OutOfRange)
    ELSE IF width = 1 /\ height = 1 THEN Ok(<<>>)
    ELSE
      LET min_row == IF row = 0 THEN row
                     ELSE IF row = height - 1 THEN row - 1 ELSE row - 1
          max_row == IF row = 0 THEN row + 1
                     ELSE IF row = height - 1 THEN row ELSE row + 1
          min_column == IF column = 0 THEN column
                        ELSE IF column = width - 1 THEN column - 1 ELSE column - 1
          max_column == IF column = 0 THEN column + 1
                        ELSE IF column = width - 1 THEN column ELSE column + 1
          nc == max_column - min_column + 1
          nr == max_row - min_row + 1
          all == [k \in 1..(nr * nc) |->
                    <<min_row + ((k - 1) \div nc), min_column + ((k - 1) % nc)>>]
      IN  Ok(SelectSeq(all, LAMBDA p : p # <<row, column>>))

\* get_tiles_near: map get_tile over the indices and collect into a Result;
\* the first Err wins.
get_tiles_near(t, row, column) ==
    LET ind == get_indices_near(row, column)
    IN  IF ~ind.ok THEN ind
        ELSE IF \E k \in 1..Len(ind.val) :
                   ~position_is_valid(ind.val[k][1], ind.val[k][2])
        THEN Err(OutOfRange)
        ELSE Ok([k \in 1..Len(ind.val) |-> t[ind.val[k][1] * width + ind.val[k][2]]])

count_mines_near(t, row, column) ==
    LET near == get_tiles_near(t, row, column)
    IN  IF ~near.ok THEN near
        ELSE Ok(Cardinality({k \in 1..Len(near.val) : near.val[k].has_mine}))

\* has_mines_near looking only at the four tiles that share an edge.
has_mines_near_orthogonal(t, row, column) ==
    LET ind == get_indices_near(row, column)
    IN  IF ~ind.ok THEN ind
        ELSE IF \E k \in 1..Len(ind.val) :
                   ~position_is_valid(ind.val[k][1], ind.val[k][2])
        THEN Err(OutOfRange)
        ELSE Ok(\E k \in 1..Len(ind.val) :
                   /\ ind.val[k][1] = row \/ ind.val[k][2] = column
                   /\ t[ind.val[k][1] * width + ind.val[k][2]].has_mine)

has_mines_near(t, row, column) ==
    LET near == get_tiles_near(t, row, column)
    IN  IF ~near.ok THEN near
        ELSE Ok(\E k \in 1..Len(near.val) : near.val[k].has_mine)

\* char_for_tile without the colour escapes: "#" Hidden, "~" Flagged, "X" a
\* Visible mine, " " or the digit for a Visible mine-free tile.  The unwrap()
\* of count_mines_near panics on an Err.
Digits == <<"1", "2", "3", "4", "5", "6", "7", "8">>

char_for_tile(t, row, column) ==
    LET tile == get_tile(t, row, column)
    IN  IF ~tile.ok THEN tile
        ELSE IF tile.val.state = "Hidden" THEN Ok("#")
        ELSE IF tile.val.state = "Flagged" THEN Ok("~")
        ELSE IF tile.val.has_mine THEN Ok("X")
        ELSE LET n == count_mines_near(t, row, column)
             IN  IF ~n.ok THEN Err("panic")
                 ELSE IF n.val = 0 THEN Ok(" ")
                 ELSE Ok(Digits[n.val])

\* ------------------------------------------------------------ counting
FlaggedTiles(t) == {i \in DOMAIN t : t[i].state = "Flagged"}
MinedTiles(t) == {i \in DOMAIN t : t[i].has_mine}
FreeTiles(t) == {i \in DOMAIN t : ~t[i].has_mine}

\* ------------------------------------------------------------ populate
\* empty_tiles without the `!tile.has_mine` filter: every tile counts as free.
empty_tiles_unfiltered(t) ==
    [k \in 1..Cardinality(DOMAIN t) |-> k - 1]

\* The indices of the mine-free tiles, in the order populate pushes them.
empty_tiles(t) ==
    SelectSeq([k \in 1..Cardinality(DOMAIN t) |-> k - 1],
              LAMBDA i : ~t[i].has_mine)

\* rand::seq::index::sample(rng, length, amount): any `amount` distinct
\* indices below `length` (here 1-based positions of the sequence).
sample(length, amount) ==
    {T \in SUBSET (1..length) : Cardinality(T) = amount}

\* place_mines with the sampled indices applied to self.tiles instead of
\* empty_tiles.
place_mines_by_tile_index(t, target_indices) ==
    [i \in DOMAIN t |->
        IF i + 1 \in target_indices THEN [t[i] EXCEPT !.has_mine = TRUE] ELSE t[i]]

\* The tiles after empty_tiles[index].has_mine = true for each sampled index.
place_mines(t, target_indices) ==
    LET free == empty_tiles(t)
        hit == {free[k] : k \in target_indices}
    IN  [i \in DOMAIN t |->
            IF i \in hit THEN [t[i] EXCEPT !.has_mine = TRUE] ELSE t[i]]

\* ------------------------------------------------------------ dig / flood
\* dig that refuses to open a mined tile.
dig_unless_mined(t, row, column) ==
    LET i == row * width + column
    IN  IF t[i].state = "Hidden" /\ ~t[i].has_mine
        THEN [t EXCEPT ![i].state = "Visible"]
        ELSE t

\* dig that also takes a flag away: Flagged -> Hidden.
dig_unflagging(t, row, column) ==
    LET i == row * width + column
    IN  IF t[i].state = "Hidden" THEN [t EXCEPT ![i].state = "Visible"]
        ELSE IF t[i].state = "Flagged" THEN [t EXCEPT ![i].state = "Hidden"]
        ELSE t

\* dig_tile on a valid position: Hidden -> Visible, anything else untouched.
dig(t, row, column) ==
    LET i == row * width + column
    IN  IF t[i].state = "Hidden" THEN [t EXCEPT ![i].state = "Visible"] ELSE t

StackOverflow == "stack overflow"

\* flood_empty_tiles as a function of the tiles: the tiles it leaves and how
\* it ends ("Ok", the error it propagates with `?`, or StackOverflow).
\* `calls` holds the calls in progress as <<row, column, tiles at entry>>.  The
\* method is deterministic, so a call that is entered again with the tiles it
\* was entered with recurses for ever: the process ends in a stack overflow.
\* A call that is never re-entered that way returns, because the chain of
\* calls in progress cannot repeat a (position, tiles) pair.
RECURSIVE flood(_, _, _, _), flood_each(_, _, _, _)
\* flood without the has_mines_near test: it goes on through numbered tiles.
flood_through_numbers(t, row, column, calls) ==
    LET st == get_tile_state(t, row, column)
    IN  IF ~st.ok THEN [tiles |-> t, res |-> st.err]
        ELSE IF st.val = "Visible" THEN [tiles |-> t, res |-> "Ok"]
        ELSE IF <<row, column, t>> \in calls
        THEN [tiles |-> t, res |-> StackOverflow]
        ELSE
          LET t1 == dig(t, row, column)
              near == has_mines_near(t1, row, column)
              indices == get_indices_near(row, column)
          IN  IF ~near.ok THEN [tiles |-> t1, res |-> near.err]
              ELSE IF ~indices.ok THEN [tiles |-> t1, res |-> indices.err]
              ELSE flood_each(t1, indices.val, 1,
                              calls \cup {<<row, column, t>>})

\* flood_empty_tiles(row, column) on the tiles t; `calls` holds the calls of
\* the recursion that are still open.
flood(t, row, column, calls) ==
    LET st == get_tile_state(t, row, column)
    IN  IF ~st.ok THEN [tiles |-> t, res |-> st.err]
        ELSE IF st.val = "Visible" THEN [tiles |-> t, res |-> "Ok"]
        ELSE IF <<row, column, t>> \in calls
        THEN [tiles |-> t, res |-> StackOverflow]
        ELSE
          LET t1 == dig(t, row, column)
              near == has_mines_near(t1, row, column)
              indices == get_indices_near(row, column)
          IN  IF ~near.ok THEN [tiles |-> t1, res |-> near.err]
              ELSE IF near.val THEN [tiles |-> t1, res |-> "Ok"]
              ELSE IF ~indices.ok THEN [tiles |-> t1, res |-> indices.err]
              ELSE flood_each(t1, indices.val, 1,
                              calls \cup {<<row, column, t>>})

\* The `for (adj_row, adj_column) in indices.iter()` loop, from its k-th
\* element on; `?` leaves the loop at the first call that does not return Ok.
\* r, the outcome of the k-th call, is bound as the one element of a set, so
\* that it is computed once.
flood_each(t, indices, k, calls) ==
    IF k > Len(indices) THEN [tiles |-> t, res |-> "Ok"]
    ELSE
      CHOOSE out \in {IF r.res # "Ok" THEN r
                       ELSE flood_each(r.tiles, indices, k + 1, calls) :
                       r \in {flood(t, indices[k][1], indices[k][2], calls)}} :
          TRUE

\* ------------------------------------------------------------ do_chord
\* The counting loop of do_chord over the neighbours: Err at the first
\* neighbour get_tile rejects, otherwise the two counters and hidden_indices.
chord_scan(t, row, column) ==
    LET ind == get_indices_near(row, column)
    IN  IF ~ind.ok THEN ind
        ELSE IF \E k \in 1..Len(ind.val) :
                   ~position_is_valid(ind.val[k][1], ind.val[k][2])
        THEN Err(OutOfRange)
        ELSE
          LET at(k) == t[ind.val[k][1] * width + ind.val[k][2]]
              ks == 1..Len(ind.val)
          IN  Ok([nearby_flags |-> Cardinality({k \in ks : at(k).state = "Flagged"}),
                  nearby_mines |-> Cardinality({k \in ks : at(k).has_mine}),
                  hidden_indices |->
                     SelectSeq(ind.val,
                               LAMBDA p : t[p[1] * width + p[2]].state = "Hidden")])

\* chord that also opens when the flags are fewer than the mines.
chord_with_fewer_flags(t, row, column) ==
    LET this_tile == get_tile(t, row, column)
    IN  IF ~this_tile.ok THEN [tiles |-> t, res |-> this_tile.err]
        ELSE IF this_tile.val.state # "Visible" THEN [tiles |-> t, res |-> "Ok"]
        ELSE
          LET sc == chord_scan(t, row, column)
          IN  IF ~sc.ok THEN [tiles |-> t, res |-> sc.err]
              ELSE IF sc.val.nearby_flags <= sc.val.nearby_mines
              THEN flood_each(t, sc.val.hidden_indices, 1, {})
              ELSE [tiles |-> t, res |-> "Ok"]

chord(t, row, column) ==
    LET this_tile == get_tile(t, row, column)
    IN  IF ~this_tile.ok THEN [tiles |-> t, res |-> this_tile.err]
        ELSE IF this_tile.val.state # "Visible" THEN [tiles |-> t, res |-> "Ok"]
        ELSE
          LET sc == chord_scan(t, row, column)
          IN  IF ~sc.ok THEN [tiles |-> t, res |-> sc.err]
              ELSE IF sc.val.nearby_flags = sc.val.nearby_mines
              THEN flood_each(t, sc.val.hidden_indices, 1, {})
              ELSE [tiles |-> t, res |-> "Ok"]

\* ------------------------------------------------------------ get_state
\* state_scan that returns InProgress at the first unsolved tile instead of
\* clearing is_cleared and scanning on.
RECURSIVE state_scan_early_return(_, _, _)
state_scan_early_return(t, k, is_cleared) ==
    IF k \notin DOMAIN t
    THEN IF is_cleared THEN "Cleared" ELSE "InProgress"
    ELSE IF t[k].state = "Visible" /\ t[k].has_mine THEN "Failed"
    ELSE IF t[k].state = "Hidden" /\ ~t[k].has_mine THEN "InProgress"
    ELSE state_scan_early_return(t, k + 1, is_cleared)

\* The loop of get_state from the k-th tile on (tiles are numbered from 0).
RECURSIVE state_scan(_, _, _)
state_scan(t, k, is_cleared) ==
    IF k \notin DOMAIN t
    THEN IF is_cleared THEN "Cleared" ELSE "InProgress"
    ELSE IF t[k].state = "Visible" /\ t[k].has_mine THEN "Failed"
    ELSE IF t[k].state = "Hidden" /\ ~t[k].has_mine
    THEN state_scan(t, k + 1, FALSE)
    ELSE state_scan(t, k + 1, is_cleared)

field_state(t) == state_scan(t, 0, TRUE)

\* ------------------------------------------------------------ game_over
reveal(tile) ==
    LET bad_flag == tile.state = "Flagged" /\ tile.has_mine
    IN  IF bad_flag \/ tile.state = "Hidden"
        THEN [tile EXCEPT !.state = "Visible"]
        ELSE tile

\* --------------------------------------------------------------- Init
Dims == {d \in (1..MaxWidth) \X (1..MaxHeight) : d[1] * d[2] <= MaxTiles}

Amounts == 0..MaxMines    \* the `amount` arguments explored

\* MineField::empty(w, h).
InitEmpty(w, h) ==
    /\ width = w
    /\ height = h
    /\ mines = 0
    /\ flags = 0
    /\ tiles = empty(w, h)
    /\ status = "running"
    /\ op = "empty"
    /\ ret = Ret("Ok")

\* MineField::new(w, h, amount): empty, then populate; `?` hands populate's
\* error to the caller and the field is dropped (status "no_field": the
\* variables keep the field populate refused, and nothing is enabled).
InitNew(w, h, amount) ==
    /\ width = w
    /\ height = h
    /\ flags = 0
    /\ op = "new"
    /\ IF Len(empty_tiles(empty(w, h))) < amount
       THEN /\ tiles = empty(w, h)
            /\ mines = 0
            /\ status = "no_field"
            /\ ret = RetWith(NoSpace, <<amount>>)
       ELSE /\ \E target_indices \in sample(Len(empty_tiles(empty(w, h))), amount) :
                  tiles = place_mines(empty(w, h), target_indices)
            /\ mines = 0 + amount
            /\ status = "running"
            /\ ret = RetWith("Ok", <<amount>>)

\* play has not been called.
NoPlay ==
    /\ pc = "idle"
    /\ tile_row = 0
    /\ tile_column = 0
    /\ check_for_mine = FALSE
    /\ game_overs = 0

Init ==
    /\ \E d \in Dims :
          \/ InitEmpty(d[1], d[2])
          \/ \E amount \in Amounts : InitNew(d[1], d[2], amount)
    /\ NoPlay

\* ------------------------------------------------------------ actions
Rows == 0..height      \* the rows, and one past the last
Columns == 0..width    \* the columns, and one past the last

\* populate without `self.mines += amount`.
populate_without_count(amount) ==
    /\ status = "running"
    /\ op' = "populate"
    /\ IF Len(empty_tiles(tiles)) < amount
       THEN /\ ret' = RetWith(NoSpace, <<amount>>)
            /\ UNCHANGED tiles
       ELSE /\ mines + amount <= MaxMines
            /\ \E target_indices \in sample(Len(empty_tiles(tiles)), amount) :
                  tiles' = place_mines(tiles, target_indices)
            /\ ret' = RetWith("Ok", <<amount>>)
    /\ UNCHANGED <<width, height, mines, flags, status>>

\* populate(amount).  The guard keeps the mines counter within MaxMines.
populate(amount) ==
    /\ status = "running"
    /\ op' = "populate"
    /\ IF Len(empty_tiles(tiles)) < amount
       THEN /\ ret' = RetWith(NoSpace, <<amount>>)
            /\ UNCHANGED <<tiles, mines>>
       ELSE /\ mines + amount <= MaxMines
            /\ \E target_indices \in sample(Len(empty_tiles(tiles)), amount) :
                  tiles' = place_mines(tiles, target_indices)
            /\ mines' = mines + amount
            /\ ret' = RetWith("Ok", <<amount>>)
    /\ UNCHANGED <<width, height, flags, status>>

\* toggle with the counter left alone when a flag is taken away.
toggle_without_decrement(t, f, row, column) ==
    IF ~position_is_valid(row, column)
    THEN [tiles |-> t, flags |-> f, res |-> OutOfRange]
    ELSE LET i == row * width + column
         IN  IF t[i].state = "Hidden"
             THEN [tiles |-> [t EXCEPT ![i].state = "Flagged"],
                   flags |-> f + 1, res |-> "Ok"]
             ELSE IF t[i].state = "Flagged"
             THEN [tiles |-> [t EXCEPT ![i].state = "Hidden"],
                   flags |-> f, res |-> "Ok"]
             ELSE [tiles |-> t, flags |-> f, res |-> "Ok"]

\* toggle with the catch-all arm flagging the tile: a Visible tile is flagged.
toggle_flagging_visible(t, f, row, column) ==
    IF ~position_is_valid(row, column)
    THEN [tiles |-> t, flags |-> f, res |-> OutOfRange]
    ELSE LET i == row * width + column
         IN  IF t[i].state = "Flagged"
             THEN [tiles |-> [t EXCEPT ![i].state = "Hidden"],
                   flags |-> IF f = 0 THEN f ELSE f - 1,
                   res |-> IF f = 0 THEN "panic" ELSE "Ok"]
             ELSE [tiles |-> [t EXCEPT ![i].state = "Flagged"],
                   flags |-> f + 1, res |-> "Ok"]

\* toggle_flag as a function of the tiles and the flag counter: what it
\* leaves and how it ends.  `self.flags -= 1` on a zero counter panics (the
\* overflow check of a debug build).
toggle(t, f, row, column) ==
    IF ~position_is_valid(row, column)
    THEN [tiles |-> t, flags |-> f, res |-> OutOfRange]
    ELSE LET i == row * width + column
         IN  IF t[i].state = "Hidden"
             THEN [tiles |-> [t EXCEPT ![i].state = "Flagged"],
                   flags |-> f + 1, res |-> "Ok"]
             ELSE IF t[i].state = "Flagged"
             THEN [tiles |-> [t EXCEPT ![i].state = "Hidden"],
                   flags |-> IF f = 0 THEN f ELSE f - 1,
                   res |-> IF f = 0 THEN "panic" ELSE "Ok"]
             ELSE [tiles |-> t, flags |-> f, res |-> "Ok"]

\* toggle_flag(row, column).
toggle_flag(row, column) ==
    /\ status = "running"
    /\ op' = "toggle_flag"
    /\ LET r == toggle(tiles, flags, row, column)
       IN  /\ tiles' = r.tiles
           /\ flags' = r.flags
           /\ ret' = Ret(r.res)
           /\ status' = IF r.res = "panic" THEN "panicked" ELSE status
    /\ UNCHANGED <<width, height, mines>>

\* dig_tile(row, column).
dig_tile(row, column) ==
    /\ status = "running"
    /\ op' = "dig_tile"
    /\ IF position_is_valid(row, column)
       THEN /\ tiles' = dig(tiles, row, column)
            /\ ret' = Ret("Ok")
       ELSE /\ tiles' = tiles
            /\ ret' = Ret(OutOfRange)
    /\ UNCHANGED <<width, height, mines, flags, status>>

\* How a call that ran flood ends the process, if it does.
after(res) == IF res = StackOverflow THEN "stack_overflow" ELSE "running"

\* flood_empty_tiles(row, column).
flood_empty_tiles(row, column) ==
    /\ status = "running"
    /\ op' = "flood_empty_tiles"
    /\ LET r == flood(tiles, row, column, {})
       IN  /\ tiles' = r.tiles
           /\ ret' = Ret(r.res)
           /\ status' = after(r.res)
    /\ UNCHANGED <<width, height, mines, flags>>

\* do_chord(row, column).
do_chord(row, column) ==
    /\ status = "running"
    /\ op' = "do_chord"
    /\ LET r == chord(tiles, row, column)
       IN  /\ tiles' = r.tiles
           /\ ret' = Ret(r.res)
           /\ status' = after(r.res)
    /\ UNCHANGED <<width, height, mines, flags>>

\* The positions clear_first_opening collects in target_indices.
opening_targets(t) ==
    SelectSeq(iter_positions,
              LAMBDA p : /\ ~has_mine_at(t, p[1], p[2]).val
                         /\ ~has_mines_near(t, p[1], p[2]).val)

\* clear_first_opening().  Both unwrap() calls panic on an Err.
clear_first_opening ==
    /\ status = "running"
    /\ op' = "clear_first_opening"
    /\ IF \E k \in 1..Len(iter_positions) :
             ~has_mines_near(tiles, iter_positions[k][1], iter_positions[k][2]).ok
       THEN /\ status' = "panicked"
            /\ ret' = Ret("panic")
            /\ tiles' = tiles
       ELSE IF Len(opening_targets(tiles)) = 0
       THEN /\ ret' = Ret("None")
            /\ UNCHANGED <<tiles, status>>
       ELSE \E k \in 1..Len(opening_targets(tiles)) :
              LET target_tile == opening_targets(tiles)[k]
                  r == flood(tiles, target_tile[1], target_tile[2], {})
              IN  /\ tiles' = r.tiles
                  /\ IF r.res = "Ok"
                     THEN /\ ret' = RetWith("Some", target_tile)
                          /\ status' = status
                     ELSE IF r.res = StackOverflow
                     THEN /\ ret' = Ret(StackOverflow)
                          /\ status' = "stack_overflow"
                     ELSE /\ ret' = Ret("panic")
                          /\ status' = "panicked"
    /\ UNCHANGED <<width, height, mines, flags>>

\* get_state(): a read, recorded in `ret`.
get_state ==
    /\ status = "running"
    /\ op' = "get_state"
    /\ ret' = Ret(field_state(tiles))
    /\ UNCHANGED <<width, height, mines, flags, tiles, status>>

\* game_over().
game_over ==
    /\ status = "running"
    /\ op' = "game_over"
    /\ tiles' = [i \in DOMAIN tiles |-> reveal(tiles[i])]
    /\ ret' = Ret("Ok")
    /\ UNCHANGED <<width, height, mines, flags, status>>

Next ==
    \/ \E amount \in Amounts : populate(amount) /\ UNCHANGED playvars
    \/ \E row \in Rows, column \in Columns :
          toggle_flag(row, column) /\ UNCHANGED playvars
    \/ \E row \in Rows, column \in Columns :
          dig_tile(row, column) /\ UNCHANGED playvars
    \/ \E row \in Rows, column \in Columns :
          flood_empty_tiles(row, column) /\ UNCHANGED playvars
    \/ \E row \in Rows, column \in Columns :
          do_chord(row, column) /\ UNCHANGED playvars
    \/ clear_first_opening /\ UNCHANGED playvars
    \/ get_state /\ UNCHANGED playvars
    \/ game_over /\ UNCHANGED playvars

Spec == Init /\ [][Next]_vars

\* ------------------------------------------------- the 3x3 scenario
\* MineField::new(3, 3, 1) when the sample is the centre tile (1, 1).
InitCentreMine ==
    /\ width = 3
    /\ height = 3
    /\ mines = 1
    /\ flags = 0
    /\ tiles = place_mines(empty(3, 3), {5})
    /\ status = "running"
    /\ op = "new"
    /\ ret = RetWith("Ok", <<1>>)
    /\ NoPlay

\* The small fields take every step of Next; the 3x3 field is dug, flooded
\* and read only.
NextCentreMine ==
    \/ <<width, height>> \in Dims /\ Next
    \/ /\ <<width, height>> \notin Dims
       /\ \/ \E row \in Rows, column \in Columns : dig_tile(row, column)
          \/ \E row \in Rows, column \in Columns : flood_empty_tiles(row, column)
          \/ get_state
       /\ UNCHANGED playvars

SpecCentreMine == (Init \/ InitCentreMine) /\ [][NextCentreMine]_vars

\* new(3, 2, 1), the mine on any tile: a field wide enough for an
\* opening that borders a mine.
InitThreeByTwo ==
    /\ InitNew(3, 2, 1)
    /\ NoPlay

\* The small fields take every step of Next; the 3x2 field is flagged, dug,
\* flooded and chorded.
NextThreeByTwo ==
    \/ <<width, height>> \in Dims /\ Next
    \/ /\ <<width, height>> \notin Dims
       /\ \/ \E row \in Rows, column \in Columns : toggle_flag(row, column)
          \/ \E row \in Rows, column \in Columns : dig_tile(row, column)
          \/ \E row \in Rows, column \in Columns : flood_empty_tiles(row, column)
          \/ \E row \in Rows, column \in Columns : do_chord(row, column)
       /\ UNCHANGED playvars

SpecThreeByTwo == (Init \/ InitThreeByTwo) /\ [][NextThreeByTwo]_vars

\* ------------------------------------------------------------ typing
\* ===================================================================
\* Minesweeper::play (src/src/game.rs)
\* ===================================================================
\* The cursor is a pair of u16.
U16Max == 65535

as_u16(n) == n % (U16Max + 1)

saturating_sub(v) == IF v = 0 THEN 0 ELSE v - 1

saturating_add(v) == IF v = U16Max THEN U16Max ELSE v + 1

\* clamp with > for >=: lets the cursor rest one past the last row or column.
clamp_past_end(v, n) == IF v > n THEN n - 1 ELSE v

\* "if tile_row >= height as u16 { tile_row = height as u16 - 1 }", and the
\* same for the column.
clamp(v, n) == IF v >= n THEN n - 1 ELSE v

\* The loop's exit test: the state is read only when check_for_mine is set.
finished(check, t) == check /\ field_state(t) # "InProgress"

\* redraw_field prints the field, and Display unwraps char_for_tile.
redraw_panics(t) ==
    \E k \in 1..Len(iter_positions) :
        ~char_for_tile(t, iter_positions[k][1], iter_positions[k][2]).ok

\* What unwrap() makes of the result of a call.
unwrap(res) ==
    IF res = "Ok" THEN "running"
    ELSE IF res = StackOverflow THEN "stack_overflow"
    ELSE "panicked"

\* The code after the loop: game_over(), then the last redraw.
leave_loop(t) ==
    LET shown == [i \in DOMAIN t |-> reveal(t[i])]
    IN  /\ tiles' = shown
        /\ game_overs' = game_overs + 1
        /\ pc' = IF redraw_panics(shown) THEN "aborted" ELSE "done"

\* The first lines of play: clear_first_opening().unwrap_or((0, 0)) is the
\* cursor, then the first redraw.
play_start ==
    /\ pc = "idle"
    /\ clear_first_opening
    /\ LET start == IF ret'.res = "Some" THEN ret'.val ELSE <<0, 0>>
       IN  /\ tile_row' = as_u16(start[1])
           /\ tile_column' = as_u16(start[2])
    /\ pc' = IF status' = "running" /\ ~redraw_panics(tiles')
             THEN "loop" ELSE "aborted"
    /\ UNCHANGED <<check_for_mine, game_overs>>

Keys == {"Up", "Down", "Left", "Right", "f", "Space", "d", "p", "q", "other"}

\* The match on the key: the cursor, field and check_for_mine it leaves, the
\* result of the call it makes, and how the iteration goes on ("break",
\* "continue", or "rest" for the code below the match).
key_match(key) ==
    LET same == [tiles |-> tiles, flags |-> flags, res |-> "Ok",
                 row |-> tile_row, column |-> tile_column,
                 check |-> check_for_mine, goes |-> "rest"]
    IN  CASE key = "Up" -> [same EXCEPT !.row = saturating_sub(tile_row)]
          [] key = "Down" -> [same EXCEPT !.row = saturating_add(tile_row)]
          [] key = "Left" -> [same EXCEPT !.column = saturating_sub(tile_column)]
          [] key = "Right" -> [same EXCEPT !.column = saturating_add(tile_column)]
          [] key = "f" ->
                LET r == toggle(tiles, flags, tile_row, tile_column)
                IN  [same EXCEPT !.tiles = r.tiles, !.flags = r.flags,
                                 !.res = r.res]
          [] key = "Space" ->
                LET r == flood(tiles, tile_row, tile_column, {})
                IN  [same EXCEPT !.tiles = r.tiles, !.res = r.res,
                                 !.check = (r.res = "Ok") \/ check_for_mine]
          [] key = "d" ->
                LET r == chord(tiles, tile_row, tile_column)
                IN  [same EXCEPT !.tiles = r.tiles, !.res = r.res,
                                 !.check = (r.res = "Ok") \/ check_for_mine]
          [] key = "p" -> same
          [] key = "q" -> [same EXCEPT !.goes = "break"]
          [] OTHER -> [same EXCEPT !.goes = "continue"]

\* One iteration of "for key in stdin().keys()".
key_event(key) ==
    /\ pc = "loop"
    /\ op' = key
    /\ \E m \in {key_match(key)} :
       LET row == clamp(m.row, as_u16(height))
           column == clamp(m.column, as_u16(width))
       IN  /\ ret' = Ret(m.res)
           /\ status' = unwrap(m.res)
           /\ flags' = m.flags
           /\ IF m.res # "Ok"
              THEN /\ tiles' = m.tiles
                   /\ pc' = "aborted"
                   /\ UNCHANGED <<tile_row, tile_column, check_for_mine,
                                  game_overs>>
              ELSE IF m.goes = "continue"
              THEN UNCHANGED <<tiles, playvars>>
              ELSE IF m.goes = "break"
              THEN /\ leave_loop(m.tiles)
                   /\ UNCHANGED <<tile_row, tile_column, check_for_mine>>
              ELSE /\ tile_row' = row
                   /\ tile_column' = column
                   /\ IF finished(m.check, m.tiles)
                      THEN /\ leave_loop(m.tiles)
                           /\ check_for_mine' = m.check
                      ELSE /\ tiles' = m.tiles
                           /\ check_for_mine' = FALSE
                           /\ game_overs' = game_overs
                           /\ pc' = IF redraw_panics(m.tiles)
                                    THEN "aborted" ELSE "loop"
    /\ UNCHANGED <<width, height, mines>>

\* stdin is at its end: the for loop is over.
end_of_input ==
    /\ pc = "loop"
    /\ op' = "eof"
    /\ ret' = Ret("Ok")
    /\ leave_loop(tiles)
    /\ UNCHANGED <<width, height, mines, flags, status, tile_row,
                   tile_column, check_for_mine>>

\* new(3, 2, 1) with the mine in the corner (0, 0).
InitCornerMine ==
    /\ width = 3
    /\ height = 2
    /\ mines = 1
    /\ flags = 0
    /\ tiles = place_mines(empty(3, 2), {1})
    /\ status = "running"
    /\ op = "new"
    /\ ret = RetWith("Ok", <<1>>)
    /\ NoPlay

\* play on a field fresh from its constructor.
NextPlay ==
    \/ play_start
    \/ \E key \in Keys : key_event(key)
    \/ end_of_input

SpecPlay == (Init \/ InitCornerMine) /\ [][NextPlay]_vars

TypeOK ==
    /\ <<width, height>> \in Dims \cup {<<3, 3>>, <<3, 2>>}
    /\ mines \in 0..MaxMines
    /\ flags \in Nat
    /\ tiles \in [0..(width * height - 1) -> Tile]
    /\ status \in {"running", "no_field", "panicked", "stack_overflow"}
    /\ pc \in {"idle", "loop", "done", "aborted"}
    /\ tile_row \in 0..U16Max
    /\ tile_column \in 0..U16Max
    /\ check_for_mine \in BOOLEAN
    /\ game_overs \in Nat

\* ===================================================================
\* Properties
\* ===================================================================
\* The valid positions, and the Moore neighbourhood of a position clipped to
\* the grid (stated from the geometry, not from get_indices_near).
Positions == (0..(height - 1)) \X (0..(width - 1))

Abs(n) == IF n < 0 THEN -n ELSE n

Moore(row, column) ==
    {p \in Positions : /\ Abs(p[1] - row) <= 1
                       /\ Abs(p[2] - column) <= 1
                       /\ p # <<row, column>>}

TileAt(t, p) == t[p[1] * width + p[2]]

SeqToSet(s) == {s[k] : k \in 1..Len(s)}

\* C1: in every reachable state the flags() counter equals the number of
\* tiles whose state is Flagged.
C1_FlagsCounterMatchesFlaggedTiles ==
    flags = Cardinality(FlaggedTiles(tiles))

\* C2: flood_empty_tiles(row, column) terminates for every valid position of
\* every field, whatever the mine layout and the mix of tile states: no call
\* ends in unbounded recursion.
C2_FloodTerminates ==
    op = "flood_empty_tiles" => ret.res # StackOverflow

\* C3: on every field with width >= 1 and height >= 1 and for every valid
\* position, count_mines_near, has_mines_near, flood_empty_tiles and do_chord
\* return Ok, and clear_first_opening and get_state never panic.
C3_TotalOnValidPositions ==
    /\ \A p \in Positions :
          /\ count_mines_near(tiles, p[1], p[2]).ok
          /\ has_mines_near(tiles, p[1], p[2]).ok
          /\ flood(tiles, p[1], p[2], {}).res = "Ok"
          /\ chord(tiles, p[1], p[2]).res = "Ok"
    /\ op \in {"clear_first_opening", "get_state"} => status = "running"

\* C4: game_over() turns a Hidden tile Visible, a Flagged tile without a mine
\* Visible, keeps a Flagged tile with a mine Flagged and a Visible tile
\* Visible; afterwards no tile is Hidden.
C4_GameOverMapping ==
    [][game_over =>
         \A i \in DOMAIN tiles :
            /\ tiles[i].state = "Hidden" => tiles'[i].state = "Visible"
            /\ tiles[i].state = "Flagged" /\ ~tiles[i].has_mine
                  => tiles'[i].state = "Visible"
            /\ tiles[i].state = "Flagged" /\ tiles[i].has_mine
                  => tiles'[i].state = "Flagged"
            /\ tiles[i].state = "Visible" => tiles'[i].state = "Visible"
            /\ tiles'[i].state # "Hidden"]_vars

\* C5: for every valid (row, column), get_indices_near returns exactly the
\* in-range positions at distance <= 1 other than the centre, none repeated.
C5_IndicesNearIsMooreNeighbourhood ==
    \A p \in Positions :
       LET ind == get_indices_near(p[1], p[2])
       IN  /\ ind.ok
           /\ SeqToSet(ind.val) = Moore(p[1], p[2])
           /\ Len(ind.val) = Cardinality(SeqToSet(ind.val))
\* The number of mines around a position, the mine-free tiles with no mine
\* around them that an 8-connected path of such tiles joins to `from`, and
\* the neighbours of those tiles.
AdjacentMines(t, p) == Cardinality({q \in Moore(p[1], p[2]) : TileAt(t, q).has_mine})

ZeroTile(t, p) == AdjacentMines(t, p) = 0

RECURSIVE Grow(_, _)
Grow(t, S) ==
    LET S2 == S \cup {q \in Positions : /\ ZeroTile(t, q)
                                        /\ \E p \in S : q \in Moore(p[1], p[2])}
    IN  IF S2 = S THEN S ELSE Grow(t, S2)

Region(t, from) == Grow(t, {from})

Border(t, from) ==
    {q \in Positions : \E p \in Region(t, from) : q \in Moore(p[1], p[2])}
        \ Region(t, from)

\* C6: after flood_empty_tiles(P) where P is mine-free and has no adjacent
\* mine, every tile joined to P by an 8-connected path of zero-adjacent-mine
\* tiles is Visible, so are the neighbours of those tiles (the border), and
\* no tile beyond the border is changed.
C6_FloodOpensRegionAndBorder ==
    [][\A p \in Positions :
          (/\ flood_empty_tiles(p[1], p[2])
           /\ ~TileAt(tiles, p).has_mine
           /\ ZeroTile(tiles, p))
          => /\ \A q \in Region(tiles, p) \cup Border(tiles, p) :
                   TileAt(tiles', q).state = "Visible"
             /\ \A q \in Positions \ (Region(tiles, p) \cup Border(tiles, p)) :
                   TileAt(tiles', q) = TileAt(tiles, q)]_vars
\* C7: get_state() returns Failed iff some tile is Visible with a mine,
\* Cleared iff no tile is Visible with a mine and no mine-free tile is Hidden
\* (Flagged mine-free tiles do not block Cleared), InProgress otherwise, and
\* the call changes nothing of the field.
VisibleMine(t) == \E i \in DOMAIN t : t[i].state = "Visible" /\ t[i].has_mine

HiddenFree(t) == \E i \in DOMAIN t : t[i].state = "Hidden" /\ ~t[i].has_mine

C7_GetStateDerivation ==
    /\ [](/\ field_state(tiles) \in {"Failed", "Cleared", "InProgress"}
          /\ field_state(tiles) = "Failed" <=> VisibleMine(tiles)
          /\ field_state(tiles) = "Cleared" <=> ~VisibleMine(tiles) /\ ~HiddenFree(tiles)
          /\ op = "get_state" => ret.res = field_state(tiles))
    /\ [][get_state => field' = field]_vars

\* A board read as Cleared although a mine-free tile is only Flagged.
C7_Witness ==
    /\ op = "get_state"
    /\ ret.res = "Cleared"
    /\ \E i \in DOMAIN tiles : tiles[i].state = "Flagged" /\ ~tiles[i].has_mine

\* C8: do_chord(row, column) on a Visible tile whose Flagged neighbours are as
\* many as its mined neighbours leaves every neighbour that was Hidden Visible
\* and every Flagged neighbour Flagged; with different counts, or on a tile
\* that is not Visible, it changes no tile.
FlaggedNear(t, p) ==
    Cardinality({q \in Moore(p[1], p[2]) : TileAt(t, q).state = "Flagged"})

C8_ChordOpensHiddenNeighbours ==
    [][\A p \in Positions :
          do_chord(p[1], p[2]) =>
             IF /\ TileAt(tiles, p).state = "Visible"
                /\ FlaggedNear(tiles, p) = AdjacentMines(tiles, p)
             THEN \A q \in Moore(p[1], p[2]) :
                     /\ TileAt(tiles, q).state = "Hidden"
                           => TileAt(tiles', q).state = "Visible"
                     /\ TileAt(tiles, q).state = "Flagged"
                           => TileAt(tiles', q).state = "Flagged"
             ELSE tiles' = tiles]_vars

\* C9: populate(amount) with amount <= number of mine-free tiles succeeds,
\* keeps every mined tile mined, mines exactly `amount` tiles that were
\* mine-free, adds `amount` to mines(), and changes no tile state and no
\* flag counter.
C9_PopulatePlacesExactlyAmount ==
    [][\A amount \in Amounts :
          (populate(amount) /\ amount <= Cardinality(FreeTiles(tiles)))
          => /\ ret'.res = "Ok"
             /\ DOMAIN tiles' = DOMAIN tiles
             /\ MinedTiles(tiles) \subseteq MinedTiles(tiles')
             /\ Cardinality(MinedTiles(tiles') \ MinedTiles(tiles)) = amount
             /\ Cardinality(MinedTiles(tiles')) = Cardinality(MinedTiles(tiles)) + amount
             /\ mines' = mines + amount
             /\ \A i \in DOMAIN tiles : tiles'[i].state = tiles[i].state
             /\ flags' = flags]_vars

\* populate(1) has succeeded on a field that already held a mine and a flag.
C9_Witness ==
    /\ op = "populate"
    /\ ret = RetWith("Ok", <<1>>)
    /\ mines = 2
    /\ Cardinality(MinedTiles(tiles)) = 2
    /\ \E i \in DOMAIN tiles : tiles[i].state = "Flagged"

\* C10: populate(amount) returns the insufficient-space error iff amount
\* exceeds the number of mine-free tiles, and then the field is unchanged;
\* MineField::new returns that error, and no field, exactly when populate on
\* the empty field does.
C10_PopulateInsufficientSpace ==
    /\ [](op = "new" =>
             /\ ret.res = NoSpace <=> ret.val[1] > width * height
             /\ ret.res = NoSpace <=> status = "no_field"
             /\ ret.res # NoSpace => /\ ret.res = "Ok"
                                     /\ mines = ret.val[1]
                                     /\ Cardinality(MinedTiles(tiles)) = ret.val[1])
    /\ [][\A amount \in Amounts :
             populate(amount) =>
                /\ ret'.res = NoSpace <=> amount > Cardinality(FreeTiles(tiles))
                /\ amount > Cardinality(FreeTiles(tiles)) => field' = field]_vars

\* populate has refused an amount on a field that holds mines already.
C10_Witness ==
    /\ op = "populate"
    /\ ret.res = NoSpace
    /\ mines >= 1
    /\ ret.val[1] > Cardinality(FreeTiles(tiles))
\* C11: toggle_flag(row, column) flags a Hidden tile and adds one to flags(),
\* unflags a Flagged tile and takes one from flags(), so a second toggle of
\* the same tile restores the tile and the counter; on a Visible tile it
\* changes nothing; no other tile changes.
C11_ToggleFlagInvolution ==
    [][\A p \in Positions :
          toggle_flag(p[1], p[2]) =>
             LET i == p[1] * width + p[2]
                 again == toggle(tiles', flags', p[1], p[2])
             IN  /\ ret'.res = "Ok"
                 /\ status' = "running"
                 /\ \A j \in DOMAIN tiles : j # i => tiles'[j] = tiles[j]
                 /\ tiles'[i].has_mine = tiles[i].has_mine
                 /\ tiles[i].state = "Hidden"
                       => tiles'[i].state = "Flagged" /\ flags' = flags + 1
                 /\ tiles[i].state = "Flagged"
                       => tiles'[i].state = "Hidden" /\ flags' = flags - 1
                 /\ tiles[i].state = "Visible"
                       => tiles' = tiles /\ flags' = flags
                 /\ again.res = "Ok"
                 /\ tiles[i].state # "Visible"
                       => again.tiles = tiles /\ again.flags = flags]_vars

\* A flag has been taken away again beside a standing flag and an open tile.
C11_Witness ==
    /\ op = "toggle_flag"
    /\ ret.res = "Ok"
    /\ flags = 1
    /\ Cardinality(FlaggedTiles(tiles)) = 1
    /\ \E i \in DOMAIN tiles : tiles[i].state = "Visible"
    /\ \E i \in DOMAIN tiles : tiles[i].state = "Hidden"
\* C12: flood_empty_tiles is idempotent: a second flood_empty_tiles(P) right
\* after the first leaves the tiles, flags() and mines() the first one left.
\* (A call that recurses for ever leaves the tiles it had when it started to
\* repeat itself; a second call would not get past them either.)
C12_FloodIdempotent ==
    [][\A p \in Positions :
          flood_empty_tiles(p[1], p[2]) =>
             LET again == flood(tiles', p[1], p[2], {})
             IN  /\ again.tiles = tiles'
                 /\ flags' = flags
                 /\ mines' = mines
                 /\ again.res = StackOverflow => ret'.res = StackOverflow]_vars

\* A flood from a Flagged tile has returned after opening tiles around it.
C12_Witness ==
    /\ op = "flood_empty_tiles"
    /\ ret.res = "Ok"
    /\ Cardinality(FlaggedTiles(tiles)) = 1
    /\ \A i \in DOMAIN tiles : tiles[i].state # "Hidden"
    /\ Cardinality(DOMAIN tiles) = 4
    /\ mines = 0
\* C13: every position-addressed operation called with row >= height or
\* column >= width returns the out-of-range error, does not panic, and leaves
\* tiles, flags and mines unchanged.
Outside == {p \in Rows \X Columns : p[1] >= height \/ p[2] >= width}

C13_OutOfRangeIsReported ==
    /\ [](\A p \in Outside :
             /\ get_tile(tiles, p[1], p[2]) = Err(OutOfRange)
             /\ get_tile_mut(tiles, p[1], p[2]) = Err(OutOfRange)
             /\ has_mine_at(tiles, p[1], p[2]) = Err(OutOfRange)
             /\ get_tile_state(tiles, p[1], p[2]) = Err(OutOfRange)
             /\ get_indices_near(p[1], p[2]) = Err(OutOfRange)
             /\ count_mines_near(tiles, p[1], p[2]) = Err(OutOfRange)
             /\ has_mines_near(tiles, p[1], p[2]) = Err(OutOfRange)
             /\ char_for_tile(tiles, p[1], p[2]) = Err(OutOfRange))
    /\ [][\A p \in Outside :
             (\/ toggle_flag(p[1], p[2])
              \/ dig_tile(p[1], p[2])
              \/ flood_empty_tiles(p[1], p[2])
              \/ do_chord(p[1], p[2]))
             => /\ ret'.res = OutOfRange
                /\ status' = "running"
                /\ field' = field]_vars

\* An out-of-range call has been refused on a field with flags, open tiles
\* and mines.
C13_Witness ==
    /\ op \in {"toggle_flag", "dig_tile", "flood_empty_tiles", "do_chord"}
    /\ ret.res = OutOfRange
    /\ status = "running"
    /\ flags >= 1
    /\ mines >= 1
    /\ \E i \in DOMAIN tiles : tiles[i].state = "Visible"
\* C14: mines() always equals the number of mined tiles and is at most
\* width * height; it never decreases; a mined tile stays mined; only
\* populate changes any has_mine or mines(), and nothing changes width or
\* height.
HasMine(t) == [i \in DOMAIN t |-> t[i].has_mine]

C14_MinesCounterAndPermanence ==
    /\ [](/\ mines = Cardinality(MinedTiles(tiles))
          /\ mines <= width * height
          /\ Cardinality(DOMAIN tiles) = width * height)
    /\ [][/\ mines' >= mines
          /\ MinedTiles(tiles) \subseteq MinedTiles(tiles')
          /\ width' = width
          /\ height' = height
          /\ op' # "populate" => HasMine(tiles') = HasMine(tiles) /\ mines' = mines]_vars

\* A step other than populate has run on a field of two mines, one of them
\* open.
C14_Witness ==
    /\ op \in {"flood_empty_tiles", "do_chord", "game_over"}
    /\ mines = 2
    /\ Cardinality(MinedTiles(tiles)) = 2
    /\ \E i \in DOMAIN tiles : tiles[i].state = "Visible" /\ tiles[i].has_mine
\* C15: clear_first_opening() on a field whose tiles are all Hidden returns a
\* coordinate iff some tile is mine-free with no adjacent mine; that
\* coordinate is such a tile and is Visible afterwards, and no mined tile is
\* Visible afterwards; when there is no such tile it returns none and changes
\* nothing.
AllHidden(t) == \A i \in DOMAIN t : t[i].state = "Hidden"

OpenTiles(t) == {p \in Positions : ~TileAt(t, p).has_mine /\ ZeroTile(t, p)}

C15_FirstOpeningIsSafe ==
    [][(clear_first_opening /\ AllHidden(tiles)) =>
          /\ ret'.res = "Some" <=> OpenTiles(tiles) # {}
          /\ ret'.res = "Some" =>
                /\ ret'.val \in OpenTiles(tiles)
                /\ TileAt(tiles', ret'.val).state = "Visible"
                /\ ~VisibleMine(tiles')
                /\ field_state(tiles') # "Failed"
          /\ OpenTiles(tiles) = {} => ret'.res = "None" /\ field' = field]_vars
\* C16: dig_tile(row, column) turns a Hidden tile Visible whether or not it
\* holds a mine (after digging a Hidden mined tile get_state is Failed), is a
\* no-op on a Flagged or Visible tile, changes no other tile and never
\* changes flags().
C16_DigTile ==
    [][\A p \in Positions :
          dig_tile(p[1], p[2]) =>
             LET i == p[1] * width + p[2]
             IN  /\ ret'.res = "Ok"
                 /\ flags' = flags
                 /\ \A j \in DOMAIN tiles : j # i => tiles'[j] = tiles[j]
                 /\ tiles'[i].has_mine = tiles[i].has_mine
                 /\ tiles[i].state = "Hidden" => tiles'[i].state = "Visible"
                 /\ tiles[i].state = "Hidden" /\ tiles[i].has_mine
                       => field_state(tiles') = "Failed"
                 /\ tiles[i].state # "Hidden" => tiles' = tiles]_vars

\* dig_tile has run and the only open tile is a mine, beside a flag.
C16_Witness ==
    /\ op = "dig_tile"
    /\ ret.res = "Ok"
    /\ Cardinality({i \in DOMAIN tiles : tiles[i].state = "Visible"}) = 1
    /\ VisibleMine(tiles)
    /\ field_state(tiles) = "Failed"
    /\ flags = 1
\* C17: flood_empty_tiles(P) on a Hidden tile P with at least one adjacent
\* mine makes P Visible and changes no other tile; on the 3x3 field with its
\* only mine at the centre (1,1), flooding from (0,0) opens (0,0) alone,
\* leaves (1,1) Hidden and get_state InProgress.
C17_FloodStopsAtNumberedTile ==
    [][/\ \A p \in Positions :
             (/\ flood_empty_tiles(p[1], p[2])
              /\ TileAt(tiles, p).state = "Hidden"
              /\ AdjacentMines(tiles, p) >= 1)
             => tiles' = [tiles EXCEPT ![p[1] * width + p[2]].state = "Visible"]
       /\ (/\ width = 3
           /\ height = 3
           /\ MinedTiles(tiles) = {4}
           /\ AllHidden(tiles)
           /\ flood_empty_tiles(0, 0))
          => /\ tiles'[0].state = "Visible"
             /\ \A j \in DOMAIN tiles : j # 0 => tiles'[j] = tiles[j]
             /\ tiles'[4].state = "Hidden"
             /\ ret'.res = "Ok"
             /\ field_state(tiles') = "InProgress"]_vars

\* The corner of the 3x3 field has been flooded and is the only open tile.
C17_Witness ==
    /\ width = 3
    /\ height = 3
    /\ op = "flood_empty_tiles"
    /\ ret.res = "Ok"
    /\ MinedTiles(tiles) = {4}
    /\ {i \in DOMAIN tiles : tiles[i].state = "Visible"} = {0}
    /\ \A i \in DOMAIN tiles : i # 0 => tiles[i].state = "Hidden"

\* C18: in play, a key event that takes get_state() from InProgress to Failed
\* or Cleared (and whose call returns) ends the loop, so that no later
\* toggle_flag, flood_empty_tiles or do_chord reaches the field before
\* game_over(); and a game that is over has invoked game_over() exactly once.
C18_LoopStopsWhenStateIsFinal ==
    /\ [][(/\ pc = "loop"
           /\ field_state(tiles) = "InProgress"
           /\ status' = "running"
           /\ pc' = "loop")
          => field_state(tiles') = "InProgress"]_vars
    /\ [](pc = "done" => game_overs = 1)

\* C19: in play the cursor is a valid position between any two key events,
\* hence at every toggle_flag ('f'), flood_empty_tiles (Space) and do_chord
\* ('d') call, and none of those calls returns the out-of-range error.
C19_CursorIsValidAtEveryCall ==
    /\ pc = "loop" => position_is_valid(tile_row, tile_column)
    /\ op \in {"f", "Space", "d"} => ret.res # OutOfRange

\* On the 3x2 field the cursor has been walked from the opening to the hidden
\* tile (1, 0) in the last row, and 'f' has flagged it.
C19_Witness ==
    /\ width = 3
    /\ pc = "loop"
    /\ op = "f"
    /\ ret.res = "Ok"
    /\ tile_row = 1
    /\ tile_column = 0
    /\ tiles[3].state = "Flagged"

\* C20: Visible is absorbing: no operation changes the state of a tile that is
\* Visible, and so a field whose get_state() is Failed stays Failed.
C20_VisibleIsAbsorbing ==
    [][/\ \A i \in DOMAIN tiles :
             tiles[i].state = "Visible" => tiles'[i].state = "Visible"
       /\ field_state(tiles) = "Failed" => field_state(tiles') = "Failed"]_vars

\* populate has just added a mine to a field that had failed before, next to
\* a flag: the open mine is still open and the state still Failed.
C20_Witness ==
    /\ op = "populate"
    /\ ret.res = "Ok"
    /\ mines = 2
    /\ flags = 1
    /\ field_state(tiles) = "Failed"
    /\ \E i \in DOMAIN tiles : tiles[i].state = "Visible" /\ tiles[i].has_mine

\* C21: flood_empty_tiles(P) makes no mined tile other than P Visible, and
\* from a mine-free P it does not turn a get_state() that was not Failed into
\* Failed.
C21_FloodOpensNoOtherMine ==
    [][\A row \in Rows, column \in Columns :
          (op' = "flood_empty_tiles" /\ flood_empty_tiles(row, column)) =>
             /\ \A q \in Positions :
                   (/\ TileAt(tiles, q).has_mine
                    /\ TileAt(tiles, q).state # "Visible"
                    /\ TileAt(tiles', q).state = "Visible")
                   => q = <<row, column>>
             /\ (/\ position_is_valid(row, column)
                 /\ ~TileAt(tiles, <<row, column>>).has_mine
                 /\ field_state(tiles) # "Failed")
                => field_state(tiles') # "Failed"]_vars

\* On the 3x2 field with its mine in the corner (0, 0), a flood has returned
\* with the two right-hand columns open and the mine and the tile below it
\* still Hidden.
C21_Witness ==
    /\ width = 3
    /\ height = 2
    /\ op = "flood_empty_tiles"
    /\ ret.res = "Ok"
    /\ flags = 0
    /\ MinedTiles(tiles) = {0}
    /\ {i \in DOMAIN tiles : tiles[i].state = "Visible"} = {1, 2, 4, 5}
    /\ field_state(tiles) = "InProgress"

\* C22: do_chord on a Visible tile none of whose neighbours is Flagged without
\* holding a mine makes no mined tile Visible, and does not turn a get_state()
\* that was not Failed into Failed.
C22_ChordWithCorrectFlagsIsSafe ==
    [][\A p \in Positions :
          (/\ op' = "do_chord"
           /\ do_chord(p[1], p[2])
           /\ TileAt(tiles, p).state = "Visible"
           /\ \A q \in Moore(p[1], p[2]) :
                 TileAt(tiles, q).state = "Flagged" => TileAt(tiles, q).has_mine)
          => /\ \A q \in Positions :
                   (/\ TileAt(tiles, q).has_mine
                    /\ TileAt(tiles, q).state # "Visible")
                   => TileAt(tiles', q).state # "Visible"
             /\ field_state(tiles) # "Failed"
                   => field_state(tiles') # "Failed"]_vars

\* On the 3x2 field the mine in the corner (0, 0) is flagged and a chord has
\* returned with every other tile open: the field is Cleared.
C22_Witness ==
    /\ width = 3
    /\ height = 2
    /\ op = "do_chord"
    /\ ret.res = "Ok"
    /\ flags = 1
    /\ MinedTiles(tiles) = {0}
    /\ tiles[0].state = "Flagged"
    /\ \A i \in 1..5 : tiles[i].state = "Visible"
    /\ field_state(tiles) = "Cleared"
====
